---- MODULE Spec2Model ----
(***************************************************************************)
(* Hybrid retrieval engine (services/intelligence/rag/hybrid_search.py):   *)
(* QueryEnhancer, the lazily built BM25 index, the vector branch over the  *)
(* external ChromaDB collection, and the fusion / ranking of both.         *)
(*                                                                         *)
(* Numbers.  Python floats are modelled in fixed point:                    *)
(*   - a distance d stands for d / DistScale,                              *)
(*   - vector_score and bm25_score are in units of 1 / ScoreScale,         *)
(*   - weights are in units of 1 / WeightScale,                            *)
(*   - hybrid_score is in units of 1 / (ScoreScale * WeightScale), so the  *)
(*     weighted sum is exact; a branch score s reported as a hybrid score  *)
(*     is the same number in that unit, AsHybrid(s).                       *)
(* Strings.  A text is the sequence of its whitespace separated words;     *)
(* words keep their case, Lower folds it.                                  *)
(***************************************************************************)
EXTENDS Integers, Sequences, FiniteSets, TLC

\* ------------------------------------------------------------------ bounds
MaxDocs == 3          \* documents the collection may hold
MaxK    == 2          \* largest n_results a caller passes
MaxWords == 3         \* longest query handed to the enhancer alone
MaxArticles == 3      \* articles one extraction run collects
MaxRequests == 3      \* requests the adapter's callers send in all
MaxTime == 3          \* the clock stops here

\* ---------------------------------------------------------- fixed point
DistScale   == 4
ScoreScale  == 1000
WeightScale == 10

AsHybrid(s) == WeightScale * s

\* ------------------------------------------------------------- dictionaries
NoKey == "<absent>"        \* a key the metadata dict does not have

\* dict.get(key, default)
Get(md, key, default) == IF md[key] = NoKey THEN default ELSE md[key]

\* ------------------------------------------------------------------ strings
Lower(w) ==
    CASE w = "Kiosk" -> "kiosk"
      [] w = "Mode"  -> "mode"
      [] OTHER       -> w

RECURSIVE LowerSplit(_)
\* text.lower().split()
LowerSplit(text) ==
    IF text = <<>> THEN <<>>
    ELSE <<Lower(Head(text))>> \o LowerSplit(Tail(text))

RECURSIVE Join(_)
\* ' '.join(words): the text a sequence of words stands for
Join(words) ==
    IF words = <<>> THEN ""
    ELSE IF Len(words) = 1 THEN words[1]
    ELSE words[1] \o " " \o Join(Tail(words))

RECURSIVE JoinLen(_)
\* len(text) of the text a sequence of words stands for
JoinLen(words) ==
    IF words = <<>> THEN 0
    ELSE IF Len(words) = 1 THEN Len(words[1])
    ELSE Len(words[1]) + 1 + JoinLen(Tail(words))

RECURSIVE Prefix(_, _)
\* text[:n] as words, for 0 <= n < len(text): the words that fit whole,
\* then the piece of the word the cut falls in ("" when the cut falls
\* right behind a space)
Prefix(words, n) ==
    IF Len(Head(words)) >= n THEN << SubSeq(Head(words), 1, n) >>
    ELSE << Head(words) >> \o Prefix(Tail(words), n - Len(Head(words)) - 1)

DisplayLimit == 500

\* mutation: the cut without the '...' behind it
Display_NoEllipsis(content) ==
    IF JoinLen(content) > DisplayLimit
    THEN Prefix(content, DisplayLimit)
    ELSE content

\* content[:500] + '...' if len(content) > 500 else content
Display(content) ==
    IF JoinLen(content) > DisplayLimit
    THEN LET cut == Prefix(content, DisplayLimit)
         IN  [cut EXCEPT ![Len(cut)] = @ \o "..."]
    ELSE content

\* ----------------------------------------------------------- QueryEnhancer
\* tech_synonyms, restricted to the terms of the model's vocabulary; each
\* synonym phrase is the sequence of its words
tech_synonyms(word) ==
    CASE word = "kiosk"   -> <<"kiosk", "mode", "single", "app", "mode",
                               "locked", "mode">>
      [] word = "android" -> <<"android", "device", "mobile", "device">>
      [] word = "mdm"     -> <<"mobile", "device", "management",
                               "device", "management">>
      [] OTHER            -> <<>>

\* common_misspellings, applied to a lower-cased word
common_misspellings(word) ==
    CASE word = "andriod" -> "android"
      [] OTHER            -> word

RECURSIVE ExpandWords_AtEnd(_)
\* mutation: the synonyms collected behind the last word of the query
ExpandWords_AtEnd(words) ==
    IF words = <<>> THEN <<>>
    ELSE <<Head(words)>> \o ExpandWords_AtEnd(Tail(words))
                         \o tech_synonyms(Head(words))

RECURSIVE ExpandWords(_)
\* "Add synonyms for key terms": each word, then its synonyms
ExpandWords(words) ==
    IF words = <<>> THEN <<>>
    ELSE <<Head(words)>> \o tech_synonyms(Head(words))
                         \o ExpandWords(Tail(words))

RECURSIVE CorrectWords(_)
CorrectWords(words) ==
    IF words = <<>> THEN <<>>
    ELSE <<common_misspellings(Head(words))>> \o CorrectWords(Tail(words))

\* QueryEnhancer.enhance_query
enhance_query(query) == ExpandWords(CorrectWords(LowerSplit(query)))


\* ------------------------------------------------ BM25Okapi (rank_bm25)
\* The library's arithmetic in fixed point: k1 = 1.5, b = 0.75,
\* epsilon = 0.25; logarithms come from a table of 1000 * ln(n + 0.5).
LnHalf(n) ==
    CASE n = 0 -> -693
      [] n = 1 -> 405
      [] n = 2 -> 916
      [] n = 3 -> 1253
      [] n = 4 -> 1504
      [] n = 5 -> 1705
      [] n = 6 -> 1872
      [] OTHER -> 2015

RECURSIVE Freq(_, _)
\* number of occurrences of word in a token list
Freq(tokens, word) ==
    IF tokens = <<>> THEN 0
    ELSE (IF Head(tokens) = word THEN 1 ELSE 0) + Freq(Tail(tokens), word)

RECURSIVE TotalLen(_)
TotalLen(corpus) ==
    IF corpus = <<>> THEN 0 ELSE Len(Head(corpus)) + TotalLen(Tail(corpus))

Vocab(corpus) ==
    UNION { { corpus[i][j] : j \in 1..Len(corpus[i]) } : i \in 1..Len(corpus) }

\* nd[word]: number of documents containing word
DocFreq(corpus, word) ==
    Cardinality({ i \in 1..Len(corpus) : Freq(corpus[i], word) > 0 })

RawIdf(corpus, word) ==
    LnHalf(Len(corpus) - DocFreq(corpus, word)) - LnHalf(DocFreq(corpus, word))

RECURSIVE SumIdf(_, _)
SumIdf(corpus, words) ==
    IF words = {} THEN 0
    ELSE LET w == CHOOSE x \in words : TRUE
         IN  RawIdf(corpus, w) + SumIdf(corpus, words \ {w})

\* BM25Okapi(corpus) raises ZeroDivisionError on no documents or no words
BM25Raises(corpus) == Len(corpus) = 0 \/ Vocab(corpus) = {}

\* idf[word] after _calc_idf: a negative idf is replaced by
\* epsilon * average_idf; a word outside the corpus has none (0)
Idf(corpus, word) ==
    IF word \notin Vocab(corpus) THEN 0
    ELSE IF RawIdf(corpus, word) < 0
         THEN SumIdf(corpus, Vocab(corpus)) \div (4 * Cardinality(Vocab(corpus)))
         ELSE RawIdf(corpus, word)

\* 1000 * f*(k1+1) / (f + k1*(1 - b + b*dl/avgdl)), avgdl = total/N
TermWeight(corpus, i, word) ==
    LET f     == Freq(corpus[i], word)
        total == TotalLen(corpus)
        dl    == Len(corpus[i])
    IN  IF f = 0 THEN 0
        ELSE (f * 2500 * total * 1000)
               \div (1000 * f * total + 375 * total + 1125 * dl * Len(corpus))

RECURSIVE DocScore(_, _, _)
DocScore(corpus, i, query_tokens) ==
    IF query_tokens = <<>> THEN 0
    ELSE (Idf(corpus, Head(query_tokens))
            * TermWeight(corpus, i, Head(query_tokens))) \div 1000
         + DocScore(corpus, i, Tail(query_tokens))

\* BM25Okapi.get_scores: one score per document of the indexed corpus
get_scores(index, query_tokens) ==
    [ i \in 1..Len(index.corpus) |-> DocScore(index.corpus, i, query_tokens) ]

\* ------------------------------------------------------------------ sorting
RECURSIVE InsertDesc(_, _)
\* insert the pair x = <<key, item>> behind every pair whose key is >= its key
InsertDesc(sorted, x) ==
    IF sorted = <<>> THEN <<x>>
    ELSE IF Head(sorted)[1] >= x[1]
         THEN <<Head(sorted)>> \o InsertDesc(Tail(sorted), x)
         ELSE <<x>> \o sorted

RECURSIVE SortDesc(_)
\* list.sort(key=..., reverse=True) on pairs <<key, item>>: descending by
\* key, pairs of equal key keep their order (Python's sort is stable)
SortDesc(pairs) ==
    IF pairs = <<>> THEN <<>>
    ELSE InsertDesc(SortDesc(SubSeq(pairs, 1, Len(pairs) - 1)),
                    pairs[Len(pairs)])

\* seq[:n] of Python, n of either sign
Slice(seq, n) ==
    IF n >= 0
    THEN SubSeq(seq, 1, IF n < Len(seq) THEN n ELSE Len(seq))
    ELSE SubSeq(seq, 1, IF Len(seq) + n > 0 THEN Len(seq) + n ELSE 0)


\* ------------------------------------------------------ the environment
\* A document of the ChromaDB collection: its text and its metadata dict.
\* Of the metadata only the keys the engine reads for identity are kept;
\* NoKey marks an absent key.  doc_index is -1 until _initialize_bm25 sets
\* it on its own copy.
Doc(content, url, id) ==
    [content  |-> content,
     metadata |-> [url |-> url, id |-> id, doc_index |-> -1]]

\* the documents an ingestion run may add, in the order it adds them (the
\* extraction scripts write 'url': article.get('url', ''), so a document
\* without a url carries the key with an empty value)
DocPool ==
    << Doc(<<"Kiosk", "mode">>,   "u1",  NoKey),  \* as index_articles writes
       Doc(<<"kiosk", "setup">>,  "u2",  NoKey),
       Doc(<<"android">>,         NoKey, "a"),    \* keyed by id only
       Doc(<<"mode", "app">>,     NoKey, NoKey),  \* no stable identifier
       Doc(<<"android", "device">>, "u1", "b"),   \* url of the first again
       Doc(<<"Mode", "setup">>,   "",    "c") >>  \* 'url': '' and an id

\* position in the pool, 0 for a document that is not of the pool
PoolIndex(doc) ==
    IF \E p \in 1..Len(DocPool) : DocPool[p] = doc
    THEN CHOOSE p \in 1..Len(DocPool) : DocPool[p] = doc
    ELSE 0

\* a document stored without text: the store hands back None for it
NoContent == << NoKey >>

Twice(text) == text \o text
\* a word of 640 characters
LongWord  == Twice(Twice(Twice(Twice(Twice(Twice("0123456789"))))))

\* a collection of mixed quality: a document longer than the display
\* limit, one without content, and a regular one
Mixed ==
    { Doc(<<"Kiosk", LongWord>>, "u7", NoKey),
      Doc(NoContent,             "u8", NoKey),
      DocPool[2] }

Queries == { <<>>, <<"Kiosk">>, <<"andriod", "mode">> }
Modes   == { "hybrid", "vector", "bm25", "exact" }
Ks      == { -1, 0 } \cup (1..MaxK)
\* distances the store reports, in units of 1 / DistScale; never negative,
\* the collection being created with the store's default (L2) metric
Distances == { 0, 12 }
\* (vector_weight, bm25_weight) an engine is constructed with
WeightPairs == { <<7, 3>>, <<5, 5>> }

VARIABLES
    vector_weight,        \* self.vector_weight
    bm25_weight,          \* self.bm25_weight
    collection,           \* the ChromaDB collection (external)
    bm25_index,           \* self.bm25_index: [built, corpus]
    documents_corpus,     \* self.documents_corpus
    documents_metadata,   \* self.documents_metadata
    bm25_initialized,     \* self._bm25_initialized
    call,                 \* the search call in progress / last made
    ret,                  \* what that call handed to its caller
    pc,                   \* per concurrent caller: the line it is about to run
    fetched,              \* per concurrent caller: its local `results`
    loop_i,               \* per concurrent caller: its loop position
    extractor,            \* the UnifiedExtractor and its run in progress
    limiter               \* the RateLimiter, its clock and its callers

vars == << vector_weight, bm25_weight, collection, bm25_index,
           documents_corpus, documents_metadata, bm25_initialized,
           call, ret, pc, fetched, loop_i,
           extractor, limiter >>

\* concurrent callers of one engine, and their local state
Threads == { 1, 2 }
callers == << pc, fetched, loop_i >>

engine == << bm25_index, documents_corpus, documents_metadata,
             bm25_initialized >>

NoIndex == [built |-> FALSE, corpus |-> <<>>]     \* self.bm25_index = None
NoCall  == [active |-> FALSE]

\* UnifiedExtractor.__init__: empty fingerprint sets, no run made yet;
\* handed is what the run in hand has passed to index_articles
NoRun == [step                 |-> "idle",
          all_articles         |-> <<>>,
          position             |-> 0,
          url_fingerprints     |-> {},
          content_fingerprints |-> {},
          unique_articles      |-> <<>>,
          handed               |-> <<>>]

\* RateLimiter.__init__: no request on record; every caller idle
NoRequests == [request_history |-> <<>>,
               now             |-> 0,
               sent            |-> <<>>,
               at              |-> [t \in Threads |-> "idle"]]

\* HybridSearchEngine.__init__ (the ChromaDB connection succeeded), next to
\* a fresh extractor and a fresh rate limiter
Init ==
    /\ \E w \in WeightPairs : vector_weight = w[1] /\ bm25_weight = w[2]
    /\ collection = <<>>
    /\ bm25_index = NoIndex
    /\ documents_corpus = <<>>
    /\ documents_metadata = <<>>
    /\ bm25_initialized = FALSE
    /\ call = NoCall
    /\ ret = NoCall
    /\ pc = [t \in Threads |-> "idle"]
    /\ fetched = [t \in Threads |-> <<>>]
    /\ loop_i = [t \in Threads |-> 0]
    /\ extractor = NoRun
    /\ limiter = NoRequests

\* ------------------------------------------------ ChromaDB (collaborator)
\* collection.query(n_results = n): the n nearest documents by ascending
\* distance, dist[i] being the distance of document i of the collection
StoreQuery(coll, dist, n) ==
    LET pairs == [ i \in 1..Len(coll) |->
                     << 0 - dist[i],
                        [content  |-> coll[i].content,
                         metadata |-> coll[i].metadata,
                         distance |-> dist[i]] >> ]
        sorted == SortDesc(pairs)
    IN  Slice([ i \in 1..Len(sorted) |-> sorted[i][2] ], n)


\* ------------------------------------------------------ HybridSearchEngine
\* mutation: similarity falling with the square of 1 + distance
Similarity_Squared(distance) ==
    (ScoreScale * DistScale * DistScale)
        \div ((DistScale + distance) * (DistScale + distance))

\* mutation: similarity taken as 1.0 - distance
Similarity_OneMinus(distance) ==
    ScoreScale - (ScoreScale * distance) \div DistScale

\* similarity = 1.0 / (1.0 + distance)
Similarity(distance) == (ScoreScale * DistScale) \div (DistScale + distance)

\* vector_search(query, n_results).  answer is the outcome of
\* collection.query: it raised, or it returned items.  Any exception, a
\* division by zero included, is caught and yields [].
vector_search(answer) ==
    IF answer.raised THEN <<>>
    ELSE IF \E i \in 1..Len(answer.items) :
                DistScale + answer.items[i].distance = 0
    THEN <<>>
    ELSE [ i \in 1..Len(answer.items) |->
             [content      |-> answer.items[i].content,
              metadata     |-> answer.items[i].metadata,
              vector_score |-> Similarity(answer.items[i].distance),
              rank         |-> i] ]

\* mutation: a build that neither resets the lists nor sets the flag, so
\* that every lexical search appends the corpus to the index once more
initialize_bm25_Accumulate(eng, coll, get_raises) ==
    LET same == [raised      |-> FALSE,
                 index       |-> eng.index,
                 corpus      |-> eng.corpus,
                 metadata    |-> eng.metadata,
                 initialized |-> eng.initialized]
        tokens == eng.corpus
                  \o [ i \in 1..Len(coll) |-> LowerSplit(coll[i].content) ]
        metas  == eng.metadata
                  \o [ i \in 1..Len(coll) |->
                         [coll[i].metadata EXCEPT !.doc_index = i - 1] ]
    IN  IF get_raises THEN [same EXCEPT !.raised = TRUE]
        ELSE IF Len(coll) = 0 THEN same
        ELSE [raised      |-> FALSE,
              index       |-> [built |-> TRUE, corpus |-> tokens],
              corpus      |-> tokens,
              metadata    |-> metas,
              initialized |-> FALSE]

\* mutation: the "already initialised" early return left out, so that
\* every lexical search fetches and builds again
initialize_bm25_AlwaysRebuild(eng, coll, get_raises) ==
    LET same == [raised      |-> FALSE,
                 index       |-> eng.index,
                 corpus      |-> eng.corpus,
                 metadata    |-> eng.metadata,
                 initialized |-> eng.initialized]
        tokens == [ i \in 1..Len(coll) |-> LowerSplit(coll[i].content) ]
        metas  == [ i \in 1..Len(coll) |->
                      [coll[i].metadata EXCEPT !.doc_index = i - 1] ]
    IN  IF get_raises THEN [same EXCEPT !.raised = TRUE]
        ELSE IF Len(coll) = 0 THEN same
        ELSE IF BM25Raises(tokens)
        THEN [same EXCEPT !.raised = TRUE, !.corpus = tokens,
                          !.metadata = metas]
        ELSE [raised      |-> FALSE,
              index       |-> [built |-> TRUE, corpus |-> tokens],
              corpus      |-> tokens,
              metadata    |-> metas,
              initialized |-> TRUE]

\* mutation: no early return on an empty collection, so that BM25Okapi is
\* built over no documents
initialize_bm25_NoEmptyGuard(eng, coll, get_raises) ==
    LET same == [raised      |-> FALSE,
                 index       |-> eng.index,
                 corpus      |-> eng.corpus,
                 metadata    |-> eng.metadata,
                 initialized |-> eng.initialized]
        tokens == [ i \in 1..Len(coll) |-> LowerSplit(coll[i].content) ]
        metas  == [ i \in 1..Len(coll) |->
                      [coll[i].metadata EXCEPT !.doc_index = i - 1] ]
    IN  IF eng.initialized THEN same
        ELSE IF get_raises THEN [same EXCEPT !.raised = TRUE]
        ELSE IF BM25Raises(tokens)
        THEN [same EXCEPT !.raised = TRUE, !.corpus = tokens,
                          !.metadata = metas]
        ELSE [raised      |-> FALSE,
              index       |-> [built |-> TRUE, corpus |-> tokens],
              corpus      |-> tokens,
              metadata    |-> metas,
              initialized |-> TRUE]

\* _initialize_bm25().  get_raises: collection.get raised.  Yields the
\* engine fields after the call and whether the call raised.
initialize_bm25(eng, coll, get_raises) ==
    LET same == [raised      |-> FALSE,
                 index       |-> eng.index,
                 corpus      |-> eng.corpus,
                 metadata    |-> eng.metadata,
                 initialized |-> eng.initialized]
        \* doc.lower() raises on a document without content; the loop has
        \* appended the documents before it
        blank  == { i \in 1..Len(coll) : coll[i].content = NoContent }
        upto   == IF blank = {} THEN Len(coll)
                  ELSE (CHOOSE i \in blank : \A j \in blank : i <= j) - 1
        tokens == [ i \in 1..upto |-> LowerSplit(coll[i].content) ]
        metas  == [ i \in 1..upto |->
                      [coll[i].metadata EXCEPT !.doc_index = i - 1] ]
    IN  IF eng.initialized THEN same
        ELSE IF get_raises THEN [same EXCEPT !.raised = TRUE]
        ELSE IF Len(coll) = 0 THEN same
        ELSE IF blank # {} \/ BM25Raises(tokens)
        THEN [same EXCEPT !.raised = TRUE, !.corpus = tokens,
                          !.metadata = metas]
        ELSE [raised      |-> FALSE,
              index       |-> [built |-> TRUE, corpus |-> tokens],
              corpus      |-> tokens,
              metadata    |-> metas,
              initialized |-> TRUE]

\* mutation: the score filter admitting zero
bm25_search_KeepZero(eng, query, n_results) ==
    IF ~eng.index.built THEN <<>>
    ELSE
    LET query_tokens == LowerSplit(query)
        scores       == get_scores(eng.index, query_tokens)
        scored_docs  == SortDesc([ i \in 1..Len(scores) |-> <<scores[i], i>> ])
        top          == Slice(scored_docs, n_results)
        ranked       == [ r \in 1..Len(top) |->
                            [doc_index |-> top[r][2], score |-> top[r][1],
                             rank |-> r] ]
        NotNegative(x) == x.score >= 0
        kept         == SelectSeq(ranked, NotNegative)
    IN  [ r \in 1..Len(kept) |->
            [content    |-> eng.corpus[kept[r].doc_index],
             metadata   |-> eng.metadata[kept[r].doc_index],
             bm25_score |-> kept[r].score,
             rank       |-> kept[r].rank] ]

\* bm25_search(query, n_results) once _initialize_bm25 has returned
bm25_search(eng, query, n_results) ==
    IF ~eng.index.built THEN <<>>
    ELSE
    LET query_tokens == LowerSplit(query)
        scores       == get_scores(eng.index, query_tokens)
        scored_docs  == SortDesc([ i \in 1..Len(scores) |-> <<scores[i], i>> ])
        top          == Slice(scored_docs, n_results)
        ranked       == [ r \in 1..Len(top) |->
                            [doc_index |-> top[r][2], score |-> top[r][1],
                             rank |-> r] ]
        Positive(x)  == x.score > 0
        kept         == SelectSeq(ranked, Positive)
    IN  IF \E r \in 1..Len(kept) :
              \/ kept[r].doc_index > Len(eng.corpus)
              \/ kept[r].doc_index > Len(eng.metadata)
        THEN <<>>                                  \* IndexError, caught
        ELSE [ r \in 1..Len(kept) |->
                 [content    |-> eng.corpus[kept[r].doc_index],
                  metadata   |-> eng.metadata[kept[r].doc_index],
                  bm25_score |-> kept[r].score,
                  rank       |-> kept[r].rank] ]

\* result['metadata'].get('url', result['metadata'].get('id', ''))
DocId(metadata) == Get(metadata, "url", Get(metadata, "id", ""))

KeyPos(combined, key) ==
    IF \E p \in 1..Len(combined) : combined[p].key = key
    THEN CHOOSE p \in 1..Len(combined) : combined[p].key = key
    ELSE 0

\* mutation: a list of entries in place of the dict
PutEntry_Append(combined, entry) == Append(combined, entry)

\* combined_results[doc_id] = {...}: a dict keeps the position of a key
\* that is assigned again
PutEntry(combined, entry) ==
    IF KeyPos(combined, entry.key) = 0 THEN Append(combined, entry)
    ELSE [combined EXCEPT ![KeyPos(combined, entry.key)] = entry]

RECURSIVE MergeVector(_, _)
\* "Process vector results"
MergeVector(combined, vector_results) ==
    IF vector_results = <<>> THEN combined
    ELSE LET result == Head(vector_results)
             doc_id == DocId(result.metadata)
         IN  MergeVector(
               IF doc_id = "" THEN combined
               ELSE PutEntry(combined,
                      [key          |-> doc_id,
                       content      |-> result.content,
                       metadata     |-> result.metadata,
                       vector_score |-> result.vector_score,
                       bm25_score   |-> 0]),
               Tail(vector_results))

RECURSIVE MergeBM25_UpdateOnly(_, _)
\* mutation: a lexical result only updates an entry the vector branch made
MergeBM25_UpdateOnly(combined, bm25_results) ==
    IF bm25_results = <<>> THEN combined
    ELSE LET result == Head(bm25_results)
             doc_id == DocId(result.metadata)
             pos    == KeyPos(combined, doc_id)
         IN  MergeBM25_UpdateOnly(
               IF doc_id = "" \/ pos = 0 THEN combined
               ELSE [combined EXCEPT ![pos].bm25_score = result.bm25_score],
               Tail(bm25_results))

RECURSIVE MergeBM25_Overwrite(_, _)
\* mutation: a lexical result replaces the entry the vector branch made
MergeBM25_Overwrite(combined, bm25_results) ==
    IF bm25_results = <<>> THEN combined
    ELSE LET result == Head(bm25_results)
             doc_id == DocId(result.metadata)
         IN  MergeBM25_Overwrite(
               IF doc_id = "" THEN combined
               ELSE PutEntry(combined,
                      [key          |-> doc_id,
                       content      |-> result.content,
                       metadata     |-> result.metadata,
                       vector_score |-> 0,
                       bm25_score   |-> result.bm25_score]),
               Tail(bm25_results))

RECURSIVE MergeBM25(_, _)
\* "Process BM25 results"
MergeBM25(combined, bm25_results) ==
    IF bm25_results = <<>> THEN combined
    ELSE LET result == Head(bm25_results)
             doc_id == DocId(result.metadata)
             pos    == KeyPos(combined, doc_id)
         IN  MergeBM25(
               IF doc_id = "" THEN combined
               ELSE IF pos # 0
               THEN [combined EXCEPT ![pos].bm25_score = result.bm25_score]
               ELSE Append(combined,
                      [key          |-> doc_id,
                       content      |-> result.content,
                       metadata     |-> result.metadata,
                       vector_score |-> 0,
                       bm25_score   |-> result.bm25_score]),
               Tail(bm25_results))

\* mutation: the two weights applied to the wrong branches
HybridScore_Swapped(vw, bw, vector_score, bm25_score) ==
    bw * vector_score + vw * bm25_score

\* hybrid_score of a merged entry
HybridScore(vw, bw, vector_score, bm25_score) ==
    vw * vector_score + bw * bm25_score

\* SearchResult(...) of a merged entry
FusedResult(vw, bw, entry) ==
    [id           |-> Get(entry.metadata, "id", entry.key),
     content      |-> Display(entry.content),
     url          |-> Get(entry.metadata, "url", ""),
     vector_score |-> entry.vector_score,
     bm25_score   |-> entry.bm25_score,
     hybrid_score |-> HybridScore(vw, bw, entry.vector_score,
                                  entry.bm25_score),
     metadata     |-> entry.metadata]

\* mutation: the final sort left out
SortResults_Unsorted(final_results) == final_results

\* final_results.sort(key=hybrid_score, reverse=True)
SortResults(final_results) ==
    LET sorted == SortDesc([ i \in 1..Len(final_results) |->
                     << final_results[i].hybrid_score, final_results[i] >> ])
    IN  [ i \in 1..Len(sorted) |-> sorted[i][2] ]

\* mutation: the fused list cut at the over-fetch size instead of n_results
Fuse_Overfetch(vw, bw, vector_results, bm25_results, n_results) ==
    LET combined == MergeBM25(MergeVector(<<>>, vector_results), bm25_results)
        final_results == [ i \in 1..Len(combined) |->
                             FusedResult(vw, bw, combined[i]) ]
    IN  Slice(SortResults(final_results), 2 * n_results)

\* hybrid_search(query, n_results), from the two branches' lists on
Fuse(vw, bw, vector_results, bm25_results, n_results) ==
    LET combined == MergeBM25(MergeVector(<<>>, vector_results), bm25_results)
        final_results == [ i \in 1..Len(combined) |->
                             FusedResult(vw, bw, combined[i]) ]
    IN  Slice(SortResults(final_results), n_results)

\* mutation: vector mode weighting its score as hybrid mode does
VectorOnly_Weighted(vector_results) ==
    [ i \in 1..Len(vector_results) |->
        LET r == vector_results[i]
        IN  [id           |-> Get(r.metadata, "id", ""),
             content      |-> Display(r.content),
             url          |-> Get(r.metadata, "url", ""),
             vector_score |-> r.vector_score,
             bm25_score   |-> 0,
             hybrid_score |-> vector_weight * r.vector_score,
             metadata     |-> r.metadata] ]

\* mutation: vector mode merging its results by key first
VectorOnly_Merged(vector_results) ==
    LET combined == MergeVector(<<>>, vector_results)
    IN  [ i \in 1..Len(combined) |->
            [id           |-> Get(combined[i].metadata, "id", ""),
             content      |-> Display(combined[i].content),
             url          |-> Get(combined[i].metadata, "url", ""),
             vector_score |-> combined[i].vector_score,
             bm25_score   |-> 0,
             hybrid_score |-> AsHybrid(combined[i].vector_score),
             metadata     |-> combined[i].metadata] ]

\* search(..., search_type = 'vector'): one SearchResult per branch result
VectorOnly(vector_results) ==
    [ i \in 1..Len(vector_results) |->
        LET r == vector_results[i]
        IN  [id           |-> Get(r.metadata, "id", ""),
             content      |-> Display(r.content),
             url          |-> Get(r.metadata, "url", ""),
             vector_score |-> r.vector_score,
             bm25_score   |-> 0,
             hybrid_score |-> AsHybrid(r.vector_score),
             metadata     |-> r.metadata] ]

\* search(..., search_type = 'bm25')
BM25Only(bm25_results) ==
    [ i \in 1..Len(bm25_results) |->
        LET r == bm25_results[i]
        IN  [id           |-> Get(r.metadata, "id", ""),
             content      |-> Display(r.content),
             url          |-> Get(r.metadata, "url", ""),
             vector_score |-> 0,
             bm25_score   |-> r.bm25_score,
             hybrid_score |-> AsHybrid(r.bm25_score),
             metadata     |-> r.metadata] ]


\* ------------------------------------------------------------------ actions
Engine == [index       |-> bm25_index,
           corpus      |-> documents_corpus,
           metadata    |-> documents_metadata,
           initialized |-> bm25_initialized]

\* collection.query(query_texts, n_results): raises when the store fails
\* and, by its own validation, when n_results is not positive
QueryOutcome(fails, dist, n) ==
    IF fails \/ n <= 0 THEN [raised |-> TRUE, items |-> <<>>]
    ELSE [raised |-> FALSE, items |-> StoreQuery(collection, dist, n)]

ZeroDist == [ i \in 1..Len(collection) |-> 0 ]

\* search(query, n_results, search_type), as one step.
\*   answer:     outcome of collection.query, when the mode queries it
\*   get_raises: collection.get raises, when the lazy build calls it
SearchCall(query, k, mode, answer, get_raises) ==
    LET hybrid   == mode \notin {"vector", "bm25"}
        \* the query text the branches are called with
        text     == IF hybrid THEN enhance_query(query) ELSE query
        n        == IF hybrid THEN 2 * k ELSE k
        vres     == IF mode = "bm25" THEN <<>> ELSE vector_search(answer)
        init     == IF mode = "vector" THEN
                        [raised |-> FALSE, index |-> bm25_index,
                         corpus |-> documents_corpus,
                         metadata |-> documents_metadata,
                         initialized |-> bm25_initialized]
                    ELSE initialize_bm25(Engine, collection, get_raises)
        eng      == [index |-> init.index, corpus |-> init.corpus,
                     metadata |-> init.metadata,
                     initialized |-> init.initialized]
        bres     == IF mode = "vector" \/ init.raised THEN <<>>
                    ELSE bm25_search(eng, text, n)
        \* len(content) raises on a result without content, outside
        \* every try block
        built    == IF mode = "vector" THEN vres
                    ELSE IF mode = "bm25" THEN bres
                    ELSE MergeBM25(MergeVector(<<>>, vres), bres)
        raises   == \/ init.raised
                    \/ \E list \in {built} :
                         \E i \in 1..Len(list) : list[i].content = NoContent
        results  == IF mode = "vector" THEN VectorOnly(vres)
                    ELSE IF mode = "bm25" THEN BM25Only(bres)
                    ELSE Fuse(vector_weight, bm25_weight, vres, bres, k)
    IN  /\ bm25_index' = init.index
        /\ documents_corpus' = init.corpus
        /\ documents_metadata' = init.metadata
        /\ bm25_initialized' = init.initialized
        /\ call' = [active |-> TRUE, query |-> query, k |-> k, mode |-> mode,
                    text |-> text,
                    answer |-> answer, get_raises |-> get_raises,
                    was_initialized |-> bm25_initialized]
        /\ ret' = [active  |-> TRUE,
                   raised  |-> raises,
                   results |-> IF raises THEN <<>> ELSE results]
        /\ UNCHANGED << vector_weight, bm25_weight, collection, callers, extractor, limiter >>

Search ==
    /\ ~call.active
    /\ \E query \in Queries, k \in Ks, mode \in Modes :
         LET n == IF mode \in {"vector", "bm25"} THEN k ELSE 2 * k
             queries == mode # "bm25"
             gets    == mode # "vector" /\ ~bm25_initialized
         IN  \E fails \in (IF queries THEN BOOLEAN ELSE {FALSE}),
                get_raises \in (IF gets THEN BOOLEAN ELSE {FALSE}) :
               \E dist \in (IF queries /\ ~fails /\ n > 0
                            THEN [1..Len(collection) -> Distances]
                            ELSE {ZeroDist}) :
                 SearchCall(query, k, mode,
                            IF queries THEN QueryOutcome(fails, dist, n)
                            ELSE [raised |-> FALSE, items |-> <<>>],
                            get_raises)

\* the caller has taken the result (or the exception)
Return ==
    /\ call.active
    /\ call' = NoCall
    /\ ret' = NoCall
    /\ UNCHANGED << vector_weight, bm25_weight, collection, engine, callers,
                    extractor, limiter >>

\* the ingestion pipeline adds a document to the collection
AddDocument ==
    /\ ~call.active
    /\ Len(collection) < MaxDocs
    /\ \E p \in 1..Len(DocPool) :
         /\ \A i \in 1..Len(collection) : PoolIndex(collection[i]) < p
         /\ collection' = Append(collection, DocPool[p])
    /\ UNCHANGED << vector_weight, bm25_weight, engine, call, ret, callers,
                    extractor, limiter >>

Next == Search \/ Return \/ AddDocument

Spec == Init /\ [][Next]_vars

\* the ingestion pipeline adds a document of the mixed collection, each
\* once, in any order
AddMixed ==
    /\ ~call.active
    /\ Len(collection) < MaxDocs
    /\ \E doc \in Mixed :
         /\ \A i \in 1..Len(collection) : collection[i] # doc
         /\ collection' = Append(collection, doc)
    /\ UNCHANGED << vector_weight, bm25_weight, engine, call, ret, callers,
                    extractor, limiter >>

NextDocs == Search \/ Return \/ AddMixed

SpecDocs == Init /\ [][NextDocs]_vars

\* ------------------------------------------- concurrent callers, by line
\* The lexical branch of a search call (bm25_search and the lazy
\* _initialize_bm25 it runs), one statement of the source per step; pc names
\* the source line a caller is about to execute.  Every self.<attribute>
\* is read or written at the step of the statement that names it.
Goto(t, line) == pc' = [pc EXCEPT ![t] = line]

\* search(...) enters bm25_search
Begin(t) ==
    /\ pc[t] = "idle"
    /\ Goto(t, "l211")
    /\ UNCHANGED << vector_weight, bm25_weight, collection, engine, call,
                    ret, fetched, loop_i, extractor, limiter >>

\* 211: if not self._bm25_initialized: self._initialize_bm25()
L211(t) ==
    /\ pc[t] = "l211"
    /\ Goto(t, IF bm25_initialized THEN "l214" ELSE "l142")
    /\ UNCHANGED << vector_weight, bm25_weight, collection, engine, call,
                    ret, fetched, loop_i, extractor, limiter >>

\* 142: if self._bm25_initialized: return
L142(t) ==
    /\ pc[t] = "l142"
    /\ Goto(t, IF bm25_initialized THEN "l214" ELSE "l149")
    /\ UNCHANGED << vector_weight, bm25_weight, collection, engine, call,
                    ret, fetched, loop_i, extractor, limiter >>

\* 149: results = self.collection.get(...), which may raise (re-raised
\* at 176, and not caught by bm25_search)
L149(t) ==
    /\ pc[t] = "l149"
    /\ \/ /\ fetched' = [fetched EXCEPT ![t] = collection]
          /\ Goto(t, "l151")
       \/ /\ Goto(t, "raised")
          /\ UNCHANGED fetched
    /\ UNCHANGED << vector_weight, bm25_weight, collection, engine, call,
                    ret, loop_i, extractor, limiter >>

\* 151: if not results['documents']: return
L151(t) ==
    /\ pc[t] = "l151"
    /\ Goto(t, IF fetched[t] = <<>> THEN "l214" ELSE "l156")
    /\ UNCHANGED << vector_weight, bm25_weight, collection, engine, call,
                    ret, fetched, loop_i, extractor, limiter >>

\* 156: self.documents_corpus = []
L156(t) ==
    /\ pc[t] = "l156"
    /\ documents_corpus' = <<>>
    /\ Goto(t, "l157")
    /\ UNCHANGED << vector_weight, bm25_weight, collection, bm25_index,
                    documents_metadata, bm25_initialized, call, ret,
                    fetched, loop_i, extractor, limiter >>

\* 157: self.documents_metadata = []; 159: the loop starts
L157(t) ==
    /\ pc[t] = "l157"
    /\ documents_metadata' = <<>>
    /\ loop_i' = [loop_i EXCEPT ![t] = 1]
    /\ Goto(t, "l162")
    /\ UNCHANGED << vector_weight, bm25_weight, collection, bm25_index,
                    documents_corpus, bm25_initialized, call, ret, fetched,
                    extractor, limiter >>

\* 159-162: next document, self.documents_corpus.append(tokens); past the
\* last document the loop ends
L162(t) ==
    /\ pc[t] = "l162"
    /\ IF loop_i[t] > Len(fetched[t])
       THEN /\ Goto(t, "l169")
            /\ UNCHANGED documents_corpus
       ELSE /\ documents_corpus' =
                 Append(documents_corpus,
                        LowerSplit(fetched[t][loop_i[t]].content))
            /\ Goto(t, "l166")
    /\ UNCHANGED << vector_weight, bm25_weight, collection, bm25_index,
                    documents_metadata, bm25_initialized, call, ret,
                    fetched, loop_i, extractor, limiter >>

\* 165-166: metadata['doc_index'] = i; self.documents_metadata.append(...)
L166(t) ==
    /\ pc[t] = "l166"
    /\ documents_metadata' =
         Append(documents_metadata,
                [fetched[t][loop_i[t]].metadata EXCEPT !.doc_index = loop_i[t] - 1])
    /\ loop_i' = [loop_i EXCEPT ![t] = loop_i[t] + 1]
    /\ Goto(t, "l162")
    /\ UNCHANGED << vector_weight, bm25_weight, collection, bm25_index,
                    documents_corpus, bm25_initialized, call, ret, fetched,
                    extractor, limiter >>

\* 169: self.bm25_index = BM25Okapi(self.documents_corpus)
L169(t) ==
    /\ pc[t] = "l169"
    /\ IF BM25Raises(documents_corpus)
       THEN /\ Goto(t, "raised")
            /\ UNCHANGED bm25_index
       ELSE /\ bm25_index' = [built |-> TRUE, corpus |-> documents_corpus]
            /\ Goto(t, "l170")
    /\ UNCHANGED << vector_weight, bm25_weight, collection,
                    documents_corpus, documents_metadata, bm25_initialized,
                    call, ret, fetched, loop_i, extractor, limiter >>

\* 170: self._bm25_initialized = True
L170(t) ==
    /\ pc[t] = "l170"
    /\ bm25_initialized' = TRUE
    /\ Goto(t, "l214")
    /\ UNCHANGED << vector_weight, bm25_weight, collection, bm25_index,
                    documents_corpus, documents_metadata, call, ret,
                    fetched, loop_i, extractor, limiter >>

\* 214-246: the scoring, which writes nothing shared, and the return; or
\* the exception reaching the caller
Finish(t) ==
    /\ pc[t] \in {"l214", "raised"}
    /\ Goto(t, "idle")
    /\ fetched' = [fetched EXCEPT ![t] = <<>>]
    /\ loop_i' = [loop_i EXCEPT ![t] = 0]
    /\ UNCHANGED << vector_weight, bm25_weight, collection, engine, call,
                    ret, extractor, limiter >>

Step(t) ==
    \/ Begin(t) \/ L211(t) \/ L142(t) \/ L149(t) \/ L151(t) \/ L156(t)
    \/ L157(t) \/ L162(t) \/ L166(t) \/ L169(t) \/ L170(t) \/ Finish(t)

NextConc == (\E t \in Threads : Step(t)) \/ AddDocument

\* an engine constructed with the default weights
InitConc == Init /\ vector_weight = 7 /\ bm25_weight = 3

SpecConc == InitConc /\ [][NextConc]_vars


\* ------------------------------------------------ the enhancer on its own
\* QueryEnhancer.enhance_query called directly, on every query of at most
\* MaxWords words over Words; call records the query and what came back.
Words == { "andriod", "mdm", "setup", "Kiosk", "android", "Mode" }

EnhancerQueries == UNION { [1..n -> Words] : n \in 0..MaxWords }

Enhance ==
    /\ ~call.active
    /\ \E query \in EnhancerQueries :
         call' = [active |-> TRUE, mode |-> "enhance", query |-> query,
                  text |-> enhance_query(query)]
    /\ UNCHANGED << vector_weight, bm25_weight, collection, engine, ret,
                    callers, extractor, limiter >>

\* the caller has taken the enhanced query
Taken ==
    /\ call.active
    /\ call' = NoCall
    /\ UNCHANGED << vector_weight, bm25_weight, collection, engine, ret,
                    callers, extractor, limiter >>

NextEnhance == Enhance \/ Taken

SpecEnhance == Init /\ [][NextEnhance]_vars

\* -------------------------------------------------------- UnifiedExtractor
\* (services/intelligence/rag/unified_extractor.py)  A URL is the record of
\* the components urlparse splits it into; a content is its first 1000
\* characters (head) and what follows them (rest).
Url(scheme, host, path, query, fragment) ==
    [scheme |-> scheme, host |-> host, path |-> path, query |-> query,
     fragment |-> fragment]

\* netloc.lower()
HostLower(host) ==
    CASE host = "KB.42gears.com" -> "kb.42gears.com"
      [] OTHER                   -> host

RECURSIVE RStrip(_)
\* path.rstrip('/')
RStrip(path) ==
    IF Len(path) > 0 /\ SubSeq(path, Len(path), Len(path)) = "/"
    THEN RStrip(SubSeq(path, 1, Len(path) - 1))
    ELSE path

\* normalize_url(url)
normalize_url(url) ==
    [scheme   |-> url.scheme,
     host     |-> HostLower(url.host),
     path     |-> RStrip(url.path),
     query    |-> "",
     fragment |-> ""]

\* hashlib.sha256(text).hexdigest(), taken to be free of collisions
Sha256(text) == << "sha256", text >>

\* mutation: the URL fingerprint taken of the URL as it was crawled
create_article_fingerprint_RawUrl(url, content) ==
    << Sha256(url), Sha256(content.head) >>

\* create_article_fingerprint(url, content)
create_article_fingerprint(url, content) ==
    << Sha256(normalize_url(url)), Sha256(content.head) >>

\* is_duplicate(url, content) on the fingerprint sets of ex: the answer and
\* the sets afterwards
is_duplicate(ex, url, content) ==
    LET fp == create_article_fingerprint(url, content)
    IN  IF fp[1] \in ex.url_fingerprints
             \/ fp[2] \in ex.content_fingerprints
        THEN [duplicate            |-> TRUE,
              url_fingerprints     |-> ex.url_fingerprints,
              content_fingerprints |-> ex.content_fingerprints]
        ELSE [duplicate            |-> FALSE,
              url_fingerprints     |-> ex.url_fingerprints \cup {fp[1]},
              content_fingerprints |-> ex.content_fingerprints \cup {fp[2]}]

\* UnifiedArticle(...) as the _extract_* methods build it
Article(url, content) ==
    [id             |-> Sha256(normalize_url(url)),
     url            |-> url,
     normalized_url |-> normalize_url(url),
     content        |-> content]

\* what a crawl may come across
Urls ==
    { Url("https", "KB.42gears.com", "/article/a/", "", ""),
      Url("https", "kb.42gears.com", "/article/a", "utm=1", ""),
      Url("https", "kb.42gears.com", "/article/b//", "", "top"),
      Url("http",  "kb.42gears.com", "/article/a", "", "") }
Contents ==
    { [head |-> "alpha", rest |-> ""],
      [head |-> "alpha", rest |-> "more"],
      [head |-> "beta",  rest |-> ""] }
Articles == { Article(url, content) : url \in Urls, content \in Contents }

\* run_unified_extraction: the two extract_* calls have returned
\* all_articles; the fingerprint sets are cleared for the final pass
StartRun ==
    /\ extractor.step = "idle"
    /\ \E n \in 0..MaxArticles : \E all \in [1..n -> Articles] :
         extractor' = [extractor EXCEPT
                         !.step = "dedup",
                         !.all_articles = all,
                         !.position = 1,
                         !.url_fingerprints = {},
                         !.content_fingerprints = {},
                         !.unique_articles = <<>>,
                         !.handed = <<>>]
    /\ UNCHANGED << vector_weight, bm25_weight, collection, engine, call,
                    ret, callers, limiter >>

\* one turn of "for article in all_articles"
Deduplicate ==
    /\ extractor.step = "dedup"
    /\ extractor.position <= Len(extractor.all_articles)
    /\ LET article == extractor.all_articles[extractor.position]
           answer  == is_duplicate(extractor, article.url, article.content)
       IN  extractor' = [extractor EXCEPT
                           !.position = @ + 1,
                           !.url_fingerprints = answer.url_fingerprints,
                           !.content_fingerprints =
                               answer.content_fingerprints,
                           !.unique_articles =
                               IF answer.duplicate THEN @
                               ELSE Append(@, article)]
    /\ UNCHANGED << vector_weight, bm25_weight, collection, engine, call,
                    ret, callers, limiter >>

\* index_articles(unique_articles)
IndexArticles ==
    /\ extractor.step = "dedup"
    /\ extractor.position > Len(extractor.all_articles)
    /\ extractor' = [extractor EXCEPT
                       !.step = "indexed",
                       !.handed = extractor.unique_articles]
    /\ UNCHANGED << vector_weight, bm25_weight, collection, engine, call,
                    ret, callers, limiter >>

\* the run returns; the next one starts by clearing what this one left
RunReturns ==
    /\ extractor.step = "indexed"
    /\ extractor' = NoRun
    /\ UNCHANGED << vector_weight, bm25_weight, collection, engine, call,
                    ret, callers, limiter >>

NextExtract == StartRun \/ Deduplicate \/ IndexArticles \/ RunReturns

SpecExtract == Init /\ [][NextExtract]_vars

\* ------------------------------------ RateLimiter and BaseAdapter
\* (docker/mcp-servers/adapters/rate_limiter.py, base_adapter.py)  Two
\* coroutines run BaseAdapter._make_request on one adapter; a coroutine
\* gives way to the other at each await.  Time is in ticks of the clock
\* limiter.now; limiter.sent lists the times at which a request went out
\* to the platform.
RateLimit == 2        \* self._platform_limits[platform]
Window    == 2        \* self.window_seconds

RECURSIVE DropOld(_, _)
\* while request_times and request_times[0] <= cutoff_time: popleft()
DropOld(request_times, cutoff_time) ==
    IF request_times # <<>> /\ Head(request_times) <= cutoff_time
    THEN DropOld(Tail(request_times), cutoff_time)
    ELSE request_times

\* check_rate_limit(platform), run under self._lock: the answer and the
\* history it leaves
check_rate_limit(lim) ==
    LET request_times == DropOld(lim.request_history, lim.now - Window)
    IN  [allowed         |-> Len(request_times) < RateLimit,
         request_history |-> request_times]

\* _make_request up to "if not rate_limit_status['allowed']: return"
CheckRateLimit(t) ==
    /\ limiter.at[t] = "idle"
    /\ LET status == check_rate_limit(limiter)
       IN  limiter' = [limiter EXCEPT
                         !.request_history = status.request_history,
                         !.at[t] = IF status.allowed THEN "allowed"
                                   ELSE "idle"]
    /\ UNCHANGED << vector_weight, bm25_weight, collection, engine, call,
                    ret, callers, extractor >>

\* await self.client.request(...): the request goes out
SendRequest(t) ==
    /\ limiter.at[t] = "allowed"
    /\ Len(limiter.sent) < MaxRequests
    /\ limiter' = [limiter EXCEPT
                     !.sent = Append(@, limiter.now),
                     !.at[t] = "sent"]
    /\ UNCHANGED << vector_weight, bm25_weight, collection, engine, call,
                    ret, callers, extractor >>

\* the response arrived: await self.rate_limiter.record_request(platform)
RecordRequest(t) ==
    /\ limiter.at[t] = "sent"
    /\ limiter' = [limiter EXCEPT
                     !.request_history = Append(@, limiter.now),
                     !.at[t] = "idle"]
    /\ UNCHANGED << vector_weight, bm25_weight, collection, engine, call,
                    ret, callers, extractor >>

\* the request raised (timeout, network error): the except clauses return
\* without recording it
RequestFails(t) ==
    /\ limiter.at[t] = "sent"
    /\ limiter' = [limiter EXCEPT !.at[t] = "idle"]
    /\ UNCHANGED << vector_weight, bm25_weight, collection, engine, call,
                    ret, callers, extractor >>

\* time.time() moves on
Tick ==
    /\ limiter.now < MaxTime
    /\ limiter' = [limiter EXCEPT !.now = @ + 1]
    /\ UNCHANGED << vector_weight, bm25_weight, collection, engine, call,
                    ret, callers, extractor >>

NextLimiter ==
    \/ \E t \in Threads :
         \/ CheckRateLimit(t) \/ SendRequest(t)
         \/ RecordRequest(t) \/ RequestFails(t)
    \/ Tick

SpecLimiter == Init /\ [][NextLimiter]_vars

\* ------------------------------------- a call waiting on the vector store
\* search(...) in two steps: the call is entered, and it proceeds when
\* collection.query (vector_search, line 181, the first thing hybrid_search
\* and vector mode do) hands control back.  The query is issued with no
\* timeout, so the only step that ends the wait is the store's answer or
\* failure.
InFlight == call.active /\ ~ret.active

Enter ==
    /\ ~call.active
    /\ \E query \in Queries, k \in Ks, mode \in Modes :
         call' = [active |-> TRUE, query |-> query, k |-> k, mode |-> mode]
    /\ UNCHANGED << vector_weight, bm25_weight, collection, engine, ret,
                    callers, extractor, limiter >>

\* the store answers, or fails, and the call runs to its end
StoreAnswers ==
    /\ InFlight /\ call.mode # "bm25"
    /\ LET n == IF call.mode = "vector" THEN call.k ELSE 2 * call.k
       IN  \E fails \in BOOLEAN,
              get_raises \in (IF call.mode # "vector" /\ ~bm25_initialized
                              THEN BOOLEAN ELSE {FALSE}) :
             \E dist \in (IF ~fails /\ n > 0
                          THEN [1..Len(collection) -> Distances]
                          ELSE {ZeroDist}) :
               SearchCall(call.query, call.k, call.mode,
                          QueryOutcome(fails, dist, n), get_raises)

\* bm25 mode does not query the store
RunLexical ==
    /\ InFlight /\ call.mode = "bm25"
    /\ \E get_raises \in (IF bm25_initialized THEN {FALSE} ELSE BOOLEAN) :
         SearchCall(call.query, call.k, call.mode,
                    [raised |-> FALSE, items |-> <<>>], get_raises)

ReturnWait == ret.active /\ Return

NextWait == Enter \/ StoreAnswers \/ RunLexical \/ ReturnWait \/ AddDocument

\* the engine's own steps are taken when enabled; the store owes nothing
SpecWait ==
    /\ Init /\ [][NextWait]_vars
    /\ WF_vars(RunLexical) /\ WF_vars(ReturnWait)


\* =================================================================== claims
\* What the last call saw, recomputed from its recorded inputs.
Returned   == ret.active /\ ~ret.raised
Fallback   == call.mode \notin {"vector", "bm25"}   \* runs hybrid_search
Asked      == IF Fallback THEN 2 * call.k ELSE call.k
AskedText  == IF Fallback THEN enhance_query(call.query)
              ELSE LowerSplit(call.query)
\* the lists the two branches handed back
VectorList == IF call.mode = "bm25" THEN <<>> ELSE vector_search(call.answer)
BM25List   == IF call.mode = "vector" THEN <<>>
              ELSE bm25_search(Engine, AskedText, Asked)

Range(seq) == { seq[i] : i \in 1..Len(seq) }
Min(a, b)  == IF a < b THEN a ELSE b

\* a merge key: url when the metadata has one, else id
KeysOf(list) == { DocId(x.metadata) : x \in Range(list) } \ {""}

\* C1: in hybrid mode every returned result has
\* hybrid_score = vector_weight * vector_score + bm25_weight * bm25_score,
\* with the weights the engine was constructed with.
C1_HybridScoreIsWeightedSum ==
    (Returned /\ call.mode = "hybrid") =>
        \A r \in Range(ret.results) :
            r.hybrid_score = vector_weight * r.vector_score
                             + bm25_weight * r.bm25_score

\* a hybrid result found by both branches, under unequal weights
C1_Witness ==
    /\ Returned /\ call.mode = "hybrid" /\ vector_weight # bm25_weight
    /\ \E r \in Range(ret.results) : r.vector_score > 0 /\ r.bm25_score > 0

\* C2 (as stated): in every mode hybrid_score is the weighted sum of the
\* two scores of the same result.
C2_WeightedSumInEveryMode ==
    Returned =>
        \A r \in Range(ret.results) :
            r.hybrid_score = vector_weight * r.vector_score
                             + bm25_weight * r.bm25_score

\* C2 (amended): hybrid_score is the weighted sum where fusion ran (hybrid
\* mode and the modes that fall back to it); in vector and bm25 mode it is
\* the unweighted sum of the two scores, i.e. the single branch's score.
C2_WeightedSumWhereFused ==
    Returned =>
        \A r \in Range(ret.results) :
            r.hybrid_score =
                (IF Fallback THEN vector_weight ELSE WeightScale)
                    * r.vector_score
                + (IF Fallback THEN bm25_weight ELSE WeightScale)
                    * r.bm25_score

\* a vector-mode result whose score is not 0
C2_Witness ==
    /\ Returned /\ call.mode = "vector"
    /\ \E r \in Range(ret.results) : r.vector_score > 0

\* C3: vector mode reports bm25_score 0 and hybrid_score = vector_score,
\* bm25 mode reports vector_score 0 and hybrid_score = bm25_score, and
\* neither merges by key: one result per branch result, in branch order.
C3_SingleBranchModes ==
    /\ (Returned /\ call.mode = "vector") =>
          /\ Len(ret.results) = Len(VectorList)
          /\ \A i \in 1..Len(ret.results) :
               /\ ret.results[i].bm25_score = 0
               /\ ret.results[i].vector_score = VectorList[i].vector_score
               /\ ret.results[i].hybrid_score
                    = AsHybrid(ret.results[i].vector_score)
               /\ ret.results[i].metadata = VectorList[i].metadata
    /\ (Returned /\ call.mode = "bm25") =>
          /\ Len(ret.results) = Len(BM25List)
          /\ \A i \in 1..Len(ret.results) :
               /\ ret.results[i].vector_score = 0
               /\ ret.results[i].bm25_score = BM25List[i].bm25_score
               /\ ret.results[i].hybrid_score
                    = AsHybrid(ret.results[i].bm25_score)
               /\ ret.results[i].metadata = BM25List[i].metadata

\* vector mode returning two results that a merge by key would collapse
C3_Witness ==
    /\ Returned /\ call.mode = "vector"
    /\ \E i, j \in 1..Len(ret.results) :
         /\ i < j
         /\ DocId(ret.results[i].metadata) = DocId(ret.results[j].metadata)
         /\ ret.results[i].vector_score > 0

\* C4: in every mode the returned list is in descending hybrid_score order
\* (the store returning its candidates by ascending distance).
C4_OrderedByHybridScore ==
    Returned =>
        \A i \in 1..(Len(ret.results) - 1) :
            ret.results[i].hybrid_score >= ret.results[i + 1].hybrid_score

\* hybrid mode: the lexical score lifts a document above a nearer candidate
C4_Witness ==
    /\ Returned /\ call.mode = "hybrid" /\ Len(ret.results) >= 2
    /\ ret.results[1].hybrid_score > ret.results[2].hybrid_score
    /\ ret.results[1].vector_score < ret.results[2].vector_score

\* number of results available to the last call
Available ==
    IF call.mode = "vector" THEN Len(VectorList)
    ELSE IF call.mode = "bm25" THEN Len(BM25List)
    ELSE Cardinality(KeysOf(VectorList) \cup KeysOf(BM25List))

\* C5: for positive k the call returns at most k results, and exactly
\* min(k, available) of them.
C5_KTruncation ==
    (Returned /\ call.k > 0) =>
        /\ Len(ret.results) <= call.k
        /\ Len(ret.results) = Min(call.k, Available)

\* hybrid mode with more fused documents than k
C5_Witness ==
    /\ Returned /\ call.mode = "hybrid" /\ call.k > 0
    /\ Available > call.k
    /\ Len(ret.results) = call.k


\* C6 (as stated): when collection.query raises, hybrid search raises
\* nothing and returns the lexical branch's documents, each with
\* vector_score 0.
C6_VectorFailureDegrades ==
    (ret.active /\ call.mode = "hybrid" /\ call.k > 0 /\ call.answer.raised)
    =>  /\ ~ret.raised
        /\ Len(ret.results) = Min(call.k, Cardinality(KeysOf(BM25List)))
        /\ \A r \in Range(ret.results) :
             /\ r.vector_score = 0
             /\ DocId(r.metadata) \in KeysOf(BM25List)

\* C7 (as stated): a failure of the lexical branch, the corpus fetch of the
\* lazy build raising included, does not reach the caller; the branch
\* counts as empty.
C7_LexicalFailureContained ==
    (ret.active /\ call.mode # "vector" /\ call.get_raises)
    =>  /\ ~ret.raised
        /\ \A r \in Range(ret.results) : r.bm25_score = 0

LastOf(list, key) ==
    list[CHOOSE i \in 1..Len(list) :
            /\ DocId(list[i].metadata) = key
            /\ \A j \in (i + 1)..Len(list) : DocId(list[j].metadata) # key]
KeyVector(key) == IF key \in KeysOf(VectorList)
                  THEN LastOf(VectorList, key).vector_score ELSE 0
KeyBM25(key)   == IF key \in KeysOf(BM25List)
                  THEN LastOf(BM25List, key).bm25_score ELSE 0
KeyHybrid(key) == vector_weight * KeyVector(key) + bm25_weight * KeyBM25(key)
FusedKeys      == KeysOf(VectorList) \cup KeysOf(BM25List)
\* keys of the fused set that may rank before key
Rivals(key)    == { other \in FusedKeys \ {key} :
                      KeyHybrid(other) >= KeyHybrid(key) }
OneBranchKeys  == (KeysOf(VectorList) \ KeysOf(BM25List))
                  \cup (KeysOf(BM25List) \ KeysOf(VectorList))

\* C9: in hybrid mode a keyed document found by exactly one branch is
\* returned whenever fewer than k fused documents can rank before it, with
\* its own branch's score and the other branch's score 0.
C9_FusionCompleteness ==
    (Returned /\ call.mode = "hybrid" /\ call.k > 0) =>
        \A key \in OneBranchKeys :
            Cardinality(Rivals(key)) < call.k =>
                \E r \in Range(ret.results) :
                    /\ DocId(r.metadata) = key
                    /\ r.vector_score = KeyVector(key)
                    /\ r.bm25_score = KeyBM25(key)
                    /\ key \notin KeysOf(BM25List) => r.bm25_score = 0
                    /\ key \notin KeysOf(VectorList) => r.vector_score = 0

\* the vector branch answered, and a document only the lexical branch
\* found is returned
C9_Witness ==
    /\ Returned /\ call.mode = "hybrid" /\ call.k > 0
    /\ VectorList # <<>>
    /\ \E r \in Range(ret.results) :
         /\ DocId(r.metadata) \in KeysOf(BM25List) \ KeysOf(VectorList)
         /\ r.vector_score = 0 /\ r.bm25_score > 0

\* C10 (as stated): a call with k <= 0 raises; it never returns a list.
C10_NonPositiveKRejected ==
    (ret.active /\ call.k <= 0) => ret.raised


\* C11 (as stated): a mode other than 'hybrid', 'vector' and 'bm25' raises;
\* the call does not hand back a result list.
C11_UnknownModeRejected ==
    (ret.active /\ call.mode \notin {"hybrid", "vector", "bm25"})
    => ret.raised


\* lines of _initialize_bm25 past its "already initialised" test
BuildLines == { "l149", "l151", "l156", "l157", "l162", "l166", "l169",
                "l170" }

\* C12 (as stated): under any interleaving at most one caller is ever
\* inside the index build; no second corpus fetch or index construction
\* starts while, or after, a first one runs.
C12_BuildAtMostOnce ==
    Cardinality({ t \in Threads : pc[t] \in BuildLines }) <= 1

\* C13 (as stated): whenever the index is marked built, the BM25 structure,
\* the token corpus and the metadata list have the same length, that of the
\* snapshot of the collection the build fetched, and position i of each
\* describes document i of that snapshot; under any interleaving.
C13_IndexDescribesSnapshot ==
    bm25_initialized =>
        /\ bm25_index.built
        /\ bm25_index.corpus = documents_corpus
        /\ Len(documents_metadata) = Len(documents_corpus)
        /\ Len(documents_corpus) <= Len(collection)
        /\ \A i \in 1..Len(documents_corpus) :
             /\ documents_corpus[i] = LowerSplit(collection[i].content)
             /\ i <= Len(documents_metadata) =>
                  documents_metadata[i] =
                      [collection[i].metadata EXCEPT !.doc_index = i - 1]

\* C14: once the index is marked built, no search call, in any mode and
\* whatever has been added to the collection since, changes the BM25
\* structure, the token corpus, the stored metadata or the built flag.
C14_NoWriteAfterBuild ==
    [][bm25_initialized => engine' = engine]_vars

\* a lexical search answered from an index older than the collection
C14_Witness ==
    /\ Returned /\ call.mode # "vector" /\ call.was_initialized
    /\ bm25_initialized
    /\ Len(collection) > Len(documents_corpus)

\* the key the fusion is described to use: the url of a result that has
\* one, otherwise its id, "" for a result with neither
StatedKey(metadata) ==
    IF Get(metadata, "url", "") # "" THEN metadata.url
    ELSE Get(metadata, "id", "")
StatedKeys ==
    ({ StatedKey(x.metadata) : x \in Range(VectorList) }
       \cup { StatedKey(x.metadata) : x \in Range(BM25List) }) \ {""}

\* C15 (as stated): hybrid fusion keys a branch result by its url when it
\* has one and otherwise by its id, and drops exactly the results with
\* neither: the call returns min(k, number of distinct such keys) results,
\* each carrying such a key.
C15_KeyedByUrlElseId ==
    (Returned /\ call.mode = "hybrid" /\ call.k > 0) =>
        /\ Len(ret.results) = Min(call.k, Cardinality(StatedKeys))
        /\ \A r \in Range(ret.results) : StatedKey(r.metadata) \in StatedKeys

\* copies of one document differ only in the doc_index the build adds
SameDocument(m1, m2) == m1.url = m2.url /\ m1.id = m2.id

\* C16: in hybrid mode a key found by both branches yields one result,
\* with the vector branch's vector_score, the lexical branch's bm25_score
\* (both non-zero) and the vector branch's content and metadata.
C16_BothBranchesMerged ==
    (Returned /\ call.mode = "hybrid") =>
        /\ \A i, j \in 1..Len(ret.results) :
             DocId(ret.results[i].metadata) = DocId(ret.results[j].metadata)
             => i = j
        /\ \A r \in Range(ret.results) :
             LET key == DocId(r.metadata)
             IN  key \in KeysOf(VectorList) \cap KeysOf(BM25List) =>
                   /\ r.vector_score = LastOf(VectorList, key).vector_score
                   /\ r.bm25_score = LastOf(BM25List, key).bm25_score
                   /\ r.vector_score # 0 /\ r.bm25_score # 0
                   /\ r.content = LastOf(VectorList, key).content
                   /\ r.metadata = LastOf(VectorList, key).metadata

\* a result found by both branches whose two copies differ: the lexical
\* copy is lower-cased and carries doc_index
C16_Witness ==
    /\ Returned /\ call.mode = "hybrid"
    /\ \E r \in Range(ret.results) :
         LET key == DocId(r.metadata)
         IN  /\ key \in KeysOf(VectorList) \cap KeysOf(BM25List)
             /\ LastOf(BM25List, key).content # r.content
             /\ LastOf(BM25List, key).metadata # r.metadata
             /\ SameDocument(LastOf(BM25List, key).metadata, r.metadata)

\* C17 (as stated): a result that only the lexical branch found carries
\* the content of the document as the collection stores it.
C17_LexicalContentOriginal ==
    (Returned /\ call.mode # "vector") =>
        \A r \in Range(ret.results) :
            (r.vector_score = 0 /\ r.metadata.doc_index >= 0) =>
                r.content = collection[r.metadata.doc_index + 1].content

\* the scores of the indexed documents for the last call's query, and the
\* order the claim ranks them in: higher score first, equal scores in
\* corpus order
LexScores    == get_scores(bm25_index, AskedText)
Before(i, j) == \/ LexScores[i] > LexScores[j]
                \/ LexScores[i] = LexScores[j] /\ i < j
RankOf(i)    == 1 + Cardinality({ j \in 1..Len(LexScores) : Before(j, i) })
TopPositive  == { i \in 1..Len(LexScores) :
                    LexScores[i] > 0 /\ RankOf(i) <= call.k }
Position(r)  == r.metadata.doc_index + 1

\* C18: lexical search with a positive limit k returns exactly the indexed
\* documents of strictly positive score that rank in the top k, each once
\* and with its score, in descending score order, equal scores in corpus
\* order; with no built index it returns nothing.
C18_LexicalTopKPositive ==
    (Returned /\ call.mode = "bm25" /\ call.k > 0) =>
        IF ~bm25_index.built THEN ret.results = <<>>
        ELSE /\ { Position(r) : r \in Range(ret.results) } = TopPositive
             /\ Len(ret.results) = Cardinality(TopPositive)
             /\ \A r \in Range(ret.results) :
                  r.bm25_score = LexScores[Position(r)] /\ r.bm25_score > 0
             /\ \A a, b \in 1..Len(ret.results) :
                  a < b => Before(Position(ret.results[a]),
                                  Position(ret.results[b]))

\* fewer than k results although the index holds k documents: a document
\* in the top k scored zero or less and was left out
C18_Witness ==
    /\ Returned /\ call.mode = "bm25" /\ call.k > 0
    /\ bm25_index.built
    /\ Len(documents_corpus) >= call.k
    /\ Len(ret.results) >= 1
    /\ Len(ret.results) < call.k

\* two equally scored documents returned in corpus order
C18_TieWitness ==
    /\ Returned /\ call.mode = "bm25"
    /\ \E a, b \in 1..Len(ret.results) :
         /\ a < b
         /\ ret.results[a].bm25_score = ret.results[b].bm25_score

\* C19 (as stated): every returned SearchResult, in every mode, has its
\* fields populated: a non-empty id, a url value, and the three scores as
\* numbers.
C19_AllFieldsPopulated ==
    Returned =>
        \A r \in Range(ret.results) :
            /\ r.id # "" /\ r.id # NoKey
            /\ r.url # NoKey
            /\ r.vector_score \in Int
            /\ r.bm25_score \in Int
            /\ r.hybrid_score \in Int

\* C20: in every mode every returned result has vector_score in [0, 1] and
\* bm25_score >= 0, whatever distances the store returned.
C20_ScoreRanges ==
    Returned =>
        \A r \in Range(ret.results) :
            /\ 0 <= r.vector_score /\ r.vector_score <= ScoreScale
            /\ r.bm25_score >= 0

\* results at distance 0 (score 1) and at a large distance (score strictly
\* between 0 and 1) in one list
C20_Witness ==
    /\ Returned /\ call.mode # "bm25"
    /\ \E r, s \in Range(ret.results) :
         /\ r.vector_score = ScoreScale
         /\ 0 < s.vector_score /\ s.vector_score < ScoreScale \div 2

\* 1 / (1 + distance) in fixed point: the largest score s with
\* s * (1 + distance) <= 1
IsInverse(score, distance) ==
    /\ score * (DistScale + distance) <= ScoreScale * DistScale
    /\ (score + 1) * (DistScale + distance) > ScoreScale * DistScale

\* the last candidate the store returned under a merge key
LastItem(key) ==
    LastOf(call.answer.items, key)

\* C21: every vector candidate's vector_score is 1 / (1 + distance), in
\* vector mode and in hybrid mode; a candidate at distance 0 that the
\* lexical branch did not find is returned in hybrid mode with
\* vector_score 1, bm25_score 0 and hybrid_score = vector_weight.
C21_ScoreIsInverseDistance ==
    /\ (Returned /\ call.mode = "vector") =>
          /\ Len(ret.results) = Len(call.answer.items)
          /\ \A i \in 1..Len(ret.results) :
               IsInverse(ret.results[i].vector_score,
                         call.answer.items[i].distance)
    /\ (Returned /\ Fallback) =>
          \A r \in Range(ret.results) :
              LET key == DocId(r.metadata)
              IN  key \in KeysOf(VectorList) =>
                    /\ IsInverse(r.vector_score, LastItem(key).distance)
                    /\ (LastItem(key).distance = 0
                           /\ key \notin KeysOf(BM25List)) =>
                          /\ r.vector_score = ScoreScale
                          /\ r.bm25_score = 0
                          /\ r.hybrid_score = vector_weight * ScoreScale

\* hybrid mode: a candidate at distance 0 without a lexical match, next to
\* a candidate at a positive distance
C21_Witness ==
    /\ Returned /\ call.mode = "hybrid"
    /\ \E r, s \in Range(ret.results) :
         /\ DocId(r.metadata) \in KeysOf(VectorList) \ KeysOf(BM25List)
         /\ LastItem(DocId(r.metadata)).distance = 0
         /\ r.hybrid_score = vector_weight * ScoreScale
         /\ DocId(s.metadata) \in KeysOf(VectorList)
         /\ LastItem(DocId(s.metadata)).distance > 0
         /\ s.vector_score < ScoreScale

\* C22 (as stated): every search call returns to its caller, even when the
\* vector store never answers.
C22_CallReturns ==
    call.active ~> ret.active

HasContent(doc) == doc.content # NoContent

\* C23 (as stated): a build over a collection holding a document without
\* content skips that document: the triggering lexical search does not
\* raise, the index is built, and it holds the other documents in order.
C23_BlankDocumentSkipped ==
    (/\ ret.active /\ call.mode = "bm25"
     /\ ~call.was_initialized /\ ~call.get_raises
     /\ \E i \in 1..Len(collection) : ~HasContent(collection[i])
     /\ \E i \in 1..Len(collection) : HasContent(collection[i]))
    =>  /\ ~ret.raised
        /\ bm25_initialized /\ bm25_index.built
        /\ LET kept == SelectSeq(collection, HasContent)
           IN  documents_corpus
                 = [ i \in 1..Len(kept) |-> LowerSplit(kept[i].content) ]

\* C24 (as stated): in every mode the branches are called with the
\* enhanced query, the one hybrid mode calls them with.
C24_EnhancedInEveryMode ==
    ret.active => call.text = enhance_query(call.query)

\* the same bm25 call made once more from the present state
AgainInit == initialize_bm25(Engine, collection, FALSE)
AgainResults ==
    BM25Only(bm25_search([index       |-> AgainInit.index,
                          corpus      |-> AgainInit.corpus,
                          metadata    |-> AgainInit.metadata,
                          initialized |-> AgainInit.initialized],
                         call.query, call.k))
\* the same call on an engine that builds its index anew
FreshInit ==
    initialize_bm25([index |-> NoIndex, corpus |-> <<>>, metadata |-> <<>>,
                     initialized |-> FALSE], collection, FALSE)
FreshResults ==
    BM25Only(bm25_search([index       |-> FreshInit.index,
                          corpus      |-> FreshInit.corpus,
                          metadata    |-> FreshInit.metadata,
                          initialized |-> FreshInit.initialized],
                         call.query, call.k))

\* C25: a bm25-mode call that returned would return the same list (same
\* documents, order and scores) if made again on the unchanged corpus, and
\* so would it after the index is built a second time over the corpus it
\* was built on.
C25_LexicalDeterminism ==
    (Returned /\ call.mode = "bm25") =>
        /\ ~AgainInit.raised
        /\ AgainResults = ret.results
        /\ Len(documents_corpus) = Len(collection) =>
              /\ ~FreshInit.raised
              /\ FreshInit.index = bm25_index
              /\ FreshResults = ret.results

\* a repeated call on a built index that covers the corpus, returning two
\* scored documents
C25_Witness ==
    /\ Returned /\ call.mode = "bm25" /\ call.was_initialized
    /\ Len(documents_corpus) = Len(collection)
    /\ Len(ret.results) >= 2
    /\ AgainResults = ret.results

\* the query lower-cased and corrected, word by word
Corrected(query) ==
    [ i \in 1..Len(query) |-> common_misspellings(Lower(query[i])) ]

RECURSIVE SynonymsBefore(_, _)
\* number of synonym words inserted for the first n words
SynonymsBefore(words, n) ==
    IF n = 0 THEN 0
    ELSE Len(tech_synonyms(words[n])) + SynonymsBefore(words, n - 1)

\* position of word i of the corrected query in the enhanced query
Place(words, i) == i + SynonymsBefore(words, i - 1)

\* part is a run of consecutive words of whole
Contains(whole, part) ==
    \E at \in 0..(Len(whole) - Len(part)) :
        \A m \in 1..Len(part) : whole[at + m] = part[m]

\* C26: enhance_query lower-cases and corrects the query, keeps every word
\* in its order, puts the synonyms of a recognised term right behind that
\* term and expands no inserted synonym; it writes nothing of the engine;
\* for 'andriod mdm setup' the result contains 'android' and 'mobile device
\* management'.
C26_EnhanceInsertsInPlace ==
    (call.active /\ call.mode = "enhance") =>
        LET words == Corrected(call.query)
            out   == call.text
        IN  /\ Len(out) = Len(words) + SynonymsBefore(words, Len(words))
            /\ \A i \in 1..Len(words) :
                 /\ out[Place(words, i)] = words[i]
                 /\ \A m \in 1..Len(tech_synonyms(words[i])) :
                      out[Place(words, i) + m] = tech_synonyms(words[i])[m]
            /\ out = enhance_query(call.query)
            /\ engine = << NoIndex, <<>>, <<>>, FALSE >>
            /\ call.query = << "andriod", "mdm", "setup" >> =>
                 /\ Contains(out, << "android" >>)
                 /\ Contains(out, << "mobile", "device", "management" >>)

\* 'andriod mdm setup' enhanced
C26_Witness ==
    /\ call.active /\ call.mode = "enhance"
    /\ call.query = << "andriod", "mdm", "setup" >>
    /\ call.text = << "android", "android", "device", "mobile", "device",
                      "mdm", "mobile", "device", "management",
                      "device", "management", "setup" >>

FirstOf(list, key) ==
    list[CHOOSE i \in 1..Len(list) :
            /\ DocId(list[i].metadata) = key
            /\ \A j \in 1..(i - 1) : DocId(list[j].metadata) # key]

\* the branch result a returned result was made from
BranchCopy(i) ==
    IF call.mode = "vector" THEN VectorList[i]
    ELSE IF call.mode = "bm25" THEN BM25List[i]
    ELSE LET key == DocId(ret.results[i].metadata)
         IN  IF key \in KeysOf(VectorList) THEN LastOf(VectorList, key)
             ELSE FirstOf(BM25List, key)

\* the text shown for a text
Shown(text) ==
    IF Len(text) > 500 THEN SubSeq(text, 1, 500) \o "..." ELSE text

\* C27: in every mode the content of a returned result is the branch's
\* content when that has at most 500 characters and otherwise its first 500
\* characters followed by '...'; it is never longer than 503 characters,
\* and the metadata travels unchanged.
C27_ContentTruncated ==
    Returned =>
        \A i \in 1..Len(ret.results) :
            /\ Join(ret.results[i].content) = Shown(Join(BranchCopy(i).content))
            /\ Len(Join(ret.results[i].content)) <= 503
            /\ ret.results[i].metadata = BranchCopy(i).metadata

\* hybrid mode returning a cut document next to one short enough to show
\* whole
C27_Witness ==
    /\ Returned /\ call.mode = "hybrid"
    /\ \E i, j \in 1..Len(ret.results) :
         /\ Len(Join(BranchCopy(i).content)) > 500
         /\ Len(Join(ret.results[i].content)) = 503
         /\ Len(Join(BranchCopy(j).content)) <= 500
         /\ ret.results[j].content = BranchCopy(j).content

RECURSIVE OnlySlashes(_)
OnlySlashes(text) ==
    \/ text = ""
    \/ SubSeq(text, 1, 1) = "/" /\ OnlySlashes(SubSeq(text, 2, Len(text)))

\* p is q followed by slashes only
Extends(p, q) ==
    /\ Len(p) >= Len(q)
    /\ SubSeq(p, 1, Len(q)) = q
    /\ OnlySlashes(SubSeq(p, Len(q) + 1, Len(p)))

\* two URLs of one logical document: same scheme, same host whatever the
\* case, same path up to trailing slashes; query and fragment do not count
SameLogical(u, v) ==
    /\ u.scheme = v.scheme
    /\ \/ u.host = v.host
       \/ {u.host, v.host} = {"KB.42gears.com", "kb.42gears.com"}
    /\ Extends(u.path, v.path) \/ Extends(v.path, u.path)

Handed == extractor.handed

\* C28: in every run, the articles handed to index_articles have
\* pairwise different ids; two articles have the same id exactly when their
\* URLs are of one logical document, so re-extracting a URL gives its id
\* again; no two handed articles share a normalized URL or a content
\* fingerprint, and every collected article left out shares one with a
\* handed article.
C28_UniqueArticleIds ==
    /\ \A i, j \in 1..Len(Handed) :
         i # j =>
           /\ Handed[i].id # Handed[j].id
           /\ ~SameLogical(Handed[i].url, Handed[j].url)
           /\ Handed[i].content.head # Handed[j].content.head
    /\ \A a, b \in Range(Handed) \cup Range(extractor.all_articles) :
         (a.id = b.id) <=> SameLogical(a.url, b.url)
    /\ extractor.step = "indexed" =>
         \A a \in Range(extractor.all_articles) :
           \/ a \in Range(Handed)
           \/ \E h \in Range(Handed) :
                \/ SameLogical(a.url, h.url)
                \/ a.content.head = h.content.head

\* a run that collected one logical URL twice, crawled in two spellings and
\* with different contents, and handed over two articles
C28_Witness ==
    /\ extractor.step = "indexed"
    /\ Len(Handed) = 2
    /\ \E i, j \in 1..Len(extractor.all_articles) :
         /\ i < j
         /\ extractor.all_articles[i].url # extractor.all_articles[j].url
         /\ extractor.all_articles[i].content.head
              # extractor.all_articles[j].content.head
         /\ extractor.all_articles[i].id = extractor.all_articles[j].id
         /\ extractor.all_articles[i] \in Range(Handed)
         /\ extractor.all_articles[j] \notin Range(Handed)

\* C29: wherever hybrid fusion ran, no two returned results have the same
\* merge key (url, else id), whether the key came from both branches or
\* more than once from one branch.
C29_OneResultPerKey ==
    (Returned /\ Fallback) =>
        \A i, j \in 1..Len(ret.results) :
            i # j => StatedKey(ret.results[i].metadata)
                       # StatedKey(ret.results[j].metadata)

\* a key the vector branch returned twice and the lexical branch once,
\* returned in a single result
C29_Witness ==
    /\ Returned /\ call.mode = "hybrid"
    /\ \E i, j \in 1..Len(VectorList) :
         LET key == DocId(VectorList[i].metadata)
         IN  /\ i < j /\ key # ""
             /\ DocId(VectorList[j].metadata) = key
             /\ key \in KeysOf(BM25List)
             /\ Cardinality({ n \in 1..Len(ret.results) :
                    StatedKey(ret.results[n].metadata) = key }) = 1

\* requests that went out within the window ending now
SentInWindow ==
    { i \in 1..Len(limiter.sent) : limiter.sent[i] > limiter.now - Window }

\* C30 (as stated): under any interleaving of the callers, the requests
\* sent to the platform within one window never outnumber the platform's
\* limit.
C30_SentWithinLimit ==
    Cardinality(SentInWindow) <= RateLimit

====
